---- MODULE Spec2Model ----
(***************************************************************************)
(* Model of findMedianSortedArrays (src/findMedianSortedArrays.py).        *)
(*                                                                         *)
(* The caller owns two list objects on a heap and calls the function with  *)
(* references to them, in either argument order, up to MaxCalls times.     *)
(* One call is a walk through the lines of the function: the role swap,    *)
(* the set-up of the search range, and the binary-search loop.             *)
(*                                                                         *)
(* Numbers.  Elements are integers.  The boundary values max1, min1, max2, *)
(* min2 are Python floats/ints and can be -inf or +inf; they are modelled  *)
(* as tagged values.  A returned number is kept in half units (field       *)
(* "twice" holds twice the value) so that the true division by 2 of the    *)
(* even case is exact.                                                     *)
(***************************************************************************)
EXTENDS Integers, Sequences, FiniteSets

\* ---------------------------------------------------------------- bounds
MaxLen == 3
MaxVal == 1
MaxCalls == 2

Vals == 0..MaxVal
Refs == {1, 2}

RECURSIVE SeqsUpTo(_)
SeqsUpTo(k) == IF k = 0 THEN {<<>>}
               ELSE LET S == SeqsUpTo(k - 1)
                    IN  S \cup {Append(s, v) : s \in {t \in S : Len(t) = k - 1}, v \in Vals}
Inputs == SeqsUpTo(MaxLen)

\* ------------------------------------------------- extended numbers (floats)
Fin(x) == [k |-> "fin", v |-> x]
NegInf == [k |-> "neginf", v |-> 0]
PosInf == [k |-> "posinf", v |-> 0]

\* a <= b on floats (no NaN ever reaches a comparison)
Le(a, b) ==
  CASE a.k = "neginf" -> TRUE
    [] b.k = "posinf" -> TRUE
    [] a.k = "posinf" -> FALSE
    [] b.k = "neginf" -> FALSE
    [] OTHER          -> a.v <= b.v
Gt(a, b) == ~Le(a, b)

\* Python max(a, b): b only if b > a;  min(a, b): b only if b < a
PyMax(a, b) == IF Gt(b, a) THEN b ELSE a
PyMin(a, b) == IF Gt(a, b) THEN b ELSE a

\* value of x as a result, in half units
Whole(x) ==
  CASE x.k = "fin" -> [k |-> "num", twice |-> 2 * x.v]
    [] OTHER       -> [k |-> x.k, twice |-> 0]

\* (a + b) / 2 in float arithmetic, in half units
Avg(a, b) ==
  CASE a.k = "fin" /\ b.k = "fin" -> [k |-> "num", twice |-> a.v + b.v]
    [] a.k = "fin"                -> [k |-> b.k, twice |-> 0]
    [] b.k = "fin"                -> [k |-> a.k, twice |-> 0]
    [] a.k = b.k                  -> [k |-> a.k, twice |-> 0]
    [] OTHER                      -> [k |-> "nan", twice |-> 0]

NoneResult == [k |-> "None", twice |-> 0]
Unset == [k |-> "unset", twice |-> 0]

\* ------------------------------------------------------------ list reads
\* Python subscript s[i]: 0-based, negative indices count from the end,
\* anything else raises IndexError.
InRange(s, i) == -Len(s) <= i /\ i < Len(s)
Subscript(s, i) == IF i >= 0 THEN Fin(s[i + 1]) ELSE Fin(s[Len(s) + i + 1])

\* ------------------------------------------------------ pieces of the code
\* line 2
SwapNeeded_lt(l1, l2) == l1 < l2
SwapNeeded_never(l1, l2) == FALSE
SwapNeeded(l1, l2) == l1 > l2

\* line 3 stores nothing into either list
HeapAfterSwap_copy(h, r1, r2) == [h EXCEPT ![r1] = h[r2], ![r2] = h[r1]]
HeapAfterSwap(h, r1, r2) == h

\* line 7
Mid_left(l, r) == l
Mid(l, r) == (l + r) \div 2

\* line 8
Half_floor(mm, nn) == (mm + nn) \div 2
Half(mm, nn) == (mm + nn + 1) \div 2

\* lines 9-12: the four boundary values of the cut (p1, p2)
Max1At(s1, p1) == IF p1 = 0 THEN NegInf ELSE Subscript(s1, p1 - 1)
Min1At(s1, p1, mm) == IF p1 = mm THEN PosInf ELSE Subscript(s1, p1)
Max2At(s2, p2) == IF p2 = 0 THEN NegInf ELSE Subscript(s2, p2 - 1)
Min2At(s2, p2, nn) == IF p2 = nn THEN PosInf ELSE Subscript(s2, p2)

\* line 6
Continue(l, r) == l <= r

\* line 13
CorrectPartition_one(a1, b1, a2, b2) == Le(a1, b2)
CorrectPartition(a1, b1, a2, b2) == Le(a1, b2) /\ Le(a2, b1)

\* lines 14-17
ReturnValue_min(mm, nn, a1, b1, a2, b2) ==
  IF (mm + nn) % 2 = 0 THEN Avg(PyMin(a1, a2), PyMin(b1, b2))
  ELSE Whole(PyMin(a1, a2))
ReturnValue(mm, nn, a1, b1, a2, b2) ==
  IF (mm + nn) % 2 = 0 THEN Avg(PyMax(a1, a2), PyMin(b1, b2))
  ELSE Whole(PyMax(a1, a2))

\* line 18
TooFarRight_flip(a1, b2) == Le(a1, b2)
TooFarRight(a1, b2) == Gt(a1, b2)

\* line 19, line 21
NewRight(p) == p - 1
NewLeft_skip(p) == p + 2
NewLeft(p) == p + 1

VARIABLES heap, orig, calls, order, hist, pc,
          nums1, nums2, m, n, left, right, partition1, partition2,
          max1, min1, max2, min2, result, iters, reads

locals == <<nums1, nums2, m, n, left, right, partition1, partition2,
            max1, min1, max2, min2, result, iters, reads>>
vars == <<heap, orig, calls, order, hist, pc, nums1, nums2, m, n, left, right,
          partition1, partition2, max1, min1, max2, min2, result, iters, reads>>

Init ==
  /\ heap \in [Refs -> Inputs]
  /\ orig = heap
  /\ calls = 0
  /\ order = "ab"
  /\ hist = [o \in {"ab", "ba"} |-> {}]
  /\ pc = "idle"
  /\ nums1 = 1 /\ nums2 = 2
  /\ m = 0 /\ n = 0 /\ left = 0 /\ right = 0
  /\ partition1 = 0 /\ partition2 = 0
  /\ max1 = NegInf /\ min1 = PosInf /\ max2 = NegInf /\ min2 = PosInf
  /\ result = Unset
  /\ iters = 0
  /\ reads = {}

\* the caller invokes findMedianSortedArrays(a, b) or (b, a)
Call ==
  /\ pc = "idle"
  /\ calls < MaxCalls
  /\ \E o \in {"ab", "ba"} :
       /\ order' = o
       /\ nums1' = (IF o = "ab" THEN 1 ELSE 2)
       /\ nums2' = (IF o = "ab" THEN 2 ELSE 1)
  /\ calls' = calls + 1
  /\ m' = 0 /\ n' = 0 /\ left' = 0 /\ right' = 0
  /\ partition1' = 0 /\ partition2' = 0
  /\ max1' = NegInf /\ min1' = PosInf /\ max2' = NegInf /\ min2' = PosInf
  /\ result' = Unset
  /\ iters' = 0
  /\ reads' = {}
  /\ pc' = "swap"
  /\ UNCHANGED <<heap, orig, hist>>

\* lines 2-3
Swap ==
  /\ pc = "swap"
  /\ IF SwapNeeded(Len(heap[nums1]), Len(heap[nums2]))
     THEN /\ nums1' = nums2
          /\ nums2' = nums1
          /\ heap' = HeapAfterSwap(heap, nums1, nums2)
     ELSE UNCHANGED <<nums1, nums2, heap>>
  /\ pc' = "setup"
  /\ UNCHANGED <<orig, calls, order, hist, m, n, left, right, partition1, partition2,
                 max1, min1, max2, min2, result, iters, reads>>

\* lines 4-5
Setup ==
  /\ pc = "setup"
  /\ m' = Len(heap[nums1])
  /\ n' = Len(heap[nums2])
  /\ left' = 0
  /\ right' = Len(heap[nums1])
  /\ IF Continue(0, Len(heap[nums1]))
     THEN pc' = "loop" /\ result' = result
     ELSE pc' = "done" /\ result' = NoneResult
  /\ UNCHANGED <<heap, orig, calls, order, hist, nums1, nums2, partition1, partition2,
                 max1, min1, max2, min2, iters, reads>>

\* lines 7-12: the candidate cut is computed and its boundary values read
Body ==
  /\ pc = "loop"
  /\ LET p1 == Mid(left, right)
         p2 == Half(m, n) - p1
         s1 == heap[nums1]
         s2 == heap[nums2]
         rd == (IF p1 = 0 THEN {} ELSE {<<1, p1 - 1>>})
                 \cup (IF p1 = m THEN {} ELSE {<<1, p1>>})
                 \cup (IF p2 = 0 THEN {} ELSE {<<2, p2 - 1>>})
                 \cup (IF p2 = n THEN {} ELSE {<<2, p2>>})
         ok == \A r \in rd : InRange(IF r[1] = 1 THEN s1 ELSE s2, r[2])
     IN  /\ partition1' = p1
         /\ partition2' = p2
         /\ reads' = rd
         /\ iters' = iters + 1
         /\ IF ok
            THEN /\ max1' = Max1At(s1, p1)
                 /\ min1' = Min1At(s1, p1, m)
                 /\ max2' = Max2At(s2, p2)
                 /\ min2' = Min2At(s2, p2, n)
                 /\ result' = result
                 /\ pc' = "test"
            ELSE /\ UNCHANGED <<max1, min1, max2, min2>>
                 /\ result' = [k |-> "IndexError", twice |-> 0]
                 /\ pc' = "done"
  /\ UNCHANGED <<heap, orig, calls, order, hist, nums1, nums2, m, n, left, right>>

\* lines 13-17
Found ==
  /\ pc = "test"
  /\ CorrectPartition(max1, min1, max2, min2)
  /\ result' = ReturnValue(m, n, max1, min1, max2, min2)
  /\ pc' = "done"
  /\ UNCHANGED <<heap, orig, calls, order, hist, nums1, nums2, m, n, left, right,
                 partition1, partition2, max1, min1, max2, min2, iters, reads>>

\* lines 18-19, then the loop test of line 6; when that fails the function
\* falls off its end and returns None
GoLeft ==
  /\ pc = "test"
  /\ ~CorrectPartition(max1, min1, max2, min2)
  /\ TooFarRight(max1, min2)
  /\ right' = NewRight(partition1)
  /\ IF Continue(left, NewRight(partition1))
     THEN pc' = "loop" /\ result' = result
     ELSE pc' = "done" /\ result' = NoneResult
  /\ UNCHANGED <<heap, orig, calls, order, hist, nums1, nums2, m, n, left,
                 partition1, partition2, max1, min1, max2, min2, iters, reads>>

\* lines 20-21, then the loop test of line 6
GoRight ==
  /\ pc = "test"
  /\ ~CorrectPartition(max1, min1, max2, min2)
  /\ ~TooFarRight(max1, min2)
  /\ left' = NewLeft(partition1)
  /\ IF Continue(NewLeft(partition1), right)
     THEN pc' = "loop" /\ result' = result
     ELSE pc' = "done" /\ result' = NoneResult
  /\ UNCHANGED <<heap, orig, calls, order, hist, nums1, nums2, m, n, right,
                 partition1, partition2, max1, min1, max2, min2, iters, reads>>

\* control is back in the caller, which keeps the outcome
Return ==
  /\ pc = "done"
  /\ hist' = [hist EXCEPT ![order] = @ \cup {result}]
  /\ pc' = "idle"
  /\ UNCHANGED <<heap, orig, calls, order, locals>>

Next == Call \/ Swap \/ Setup \/ Body \/ Found \/ GoLeft \/ GoRight \/ Return

Spec == Init /\ [][Next]_vars

\* ------------------------------------------------------------- reference
\* the merge-and-index oracle: sort the combined elements, take the middle
RECURSIVE Insert(_, _)
Insert(s, x) == IF s = <<>> THEN <<x>>
                ELSE IF x <= Head(s) THEN <<x>> \o s
                ELSE <<Head(s)>> \o Insert(Tail(s), x)
RECURSIVE MergeSort(_)
MergeSort(s) == IF s = <<>> THEN <<>> ELSE Insert(MergeSort(Tail(s)), Head(s))

\* twice the median of a non-empty combination
MedianTwice(a, b) ==
  LET s == MergeSort(a \o b)
      L == Len(s)
  IN  IF L % 2 = 1 THEN 2 * s[(L + 1) \div 2] ELSE s[L \div 2] + s[L \div 2 + 1]

Ascending(s) == \A i \in 1..(Len(s) - 1) : s[i] <= s[i + 1]
SortedInputs == Ascending(orig[1]) /\ Ascending(orig[2])
BothEmpty == orig[1] = <<>> /\ orig[2] = <<>>
Total == Len(orig[1]) + Len(orig[2])
Shorter == IF Len(orig[1]) <= Len(orig[2]) THEN Len(orig[1]) ELSE Len(orig[2])
Longer == IF Len(orig[1]) <= Len(orig[2]) THEN Len(orig[2]) ELSE Len(orig[1])
Returned == pc = "done"
Median == [k |-> "num", twice |-> MedianTwice(orig[1], orig[2])]

CeilHalf(x) == CHOOSE k \in 0..x : 2 * k >= x /\ 2 * k < x + 2
RECURSIVE Log2Floor(_)
Log2Floor(x) == IF x <= 1 THEN 0 ELSE 1 + Log2Floor(x \div 2)

\* the correct-partition test at candidate cut p of the first (shorter) list
ValidCut(p) ==
  LET s1 == heap[nums1]
      s2 == heap[nums2]
      p2 == Half(m, n) - p
  IN  CorrectPartition(Max1At(s1, p), Min1At(s1, p, m), Max2At(s2, p2), Min2At(s2, p2, n))

\* ----------------------------------------------------------------- claims

\* C1: for ascending inputs that are not both empty the call returns exactly
\* the median of the merged sequence: the middle element when the combined
\* length is odd, the average of the two middle elements when it is even.
C1_ReturnsMedian ==
  (Returned /\ SortedInputs /\ ~BothEmpty) => result = Median

C1_Witness ==
  /\ Returned /\ SortedInputs
  /\ orig[1] # <<>> /\ orig[2] # <<>>
  /\ Total % 2 = 0
  /\ result.k = "num" /\ result.twice % 2 = 1
  /\ \E i \in 1..(Len(orig[2]) - 1) : orig[2][i] = orig[2][i + 1]

\* C2: with both inputs empty the call fails with an explicit InvalidInput
\* error and returns no numeric or sentinel-derived value.
C2_EmptyInputsRaise ==
  (Returned /\ BothEmpty) => result.k = "InvalidInput"

\* C3: for ascending inputs not both empty, the call on (A, B) and the call
\* on (B, A) have the same outcome, equal lengths included.
C3_Symmetric ==
  (SortedInputs /\ ~BothEmpty) => Cardinality(hist["ab"] \cup hist["ba"]) <= 1

C3_Witness ==
  /\ SortedInputs
  /\ hist["ab"] # {} /\ hist["ba"] # {}
  /\ Len(orig[1]) = Len(orig[2]) /\ orig[1] # orig[2]

\* C4: for ascending inputs not both empty the loop ends by the
\* correct-partition test succeeding while left <= right; the function never
\* falls off the loop with left > right (a None result).
C4_EndsByPartitionTest ==
  (SortedInputs /\ ~BothEmpty) =>
     /\ left <= right
     /\ result.k # "None"
     /\ Returned => CorrectPartition(max1, min1, max2, min2)

C4_Witness ==
  /\ Returned /\ SortedInputs /\ ~BothEmpty
  /\ iters >= 2 /\ left = right
  /\ result.k = "num"

\* C5: a call never changes the caller's two lists; the role swap only
\* rebinds the local names; repeating a call on the same inputs yields the
\* same result.
C5_InputsUntouched ==
  /\ heap = orig
  /\ {nums1, nums2} = Refs
  /\ \A o \in {"ab", "ba"} : Cardinality(hist[o]) <= 1

C5_Witness ==
  /\ calls = 2 /\ pc = "idle"
  /\ order = "ab" /\ hist["ab"] # {} /\ hist["ba"] = {}
  /\ Len(orig[1]) > Len(orig[2])
  /\ nums1 = 2

\* C6: in every loop iteration and in the state in which the function
\* returns, partition1 + partition2 = ceil((m + n) / 2), m and n being the
\* lengths of the shorter and the longer list after the swap.
C6_LeftHalfSize ==
  (pc \in {"test", "done"}) =>
     /\ m = Shorter /\ n = Longer
     /\ partition1 + partition2 = CeilHalf(m + n)

C6_Witness ==
  /\ pc = "test" /\ iters >= 2
  /\ (m + n) % 2 = 1
  /\ partition1 > 0 /\ partition2 > 0

\* C7 as stated: for any inputs (sorted or not, not both empty) a returned
\* number never differs from the median of the sorted combination.
C7_NeverWrongNumber ==
  (Returned /\ ~BothEmpty /\ result.k = "num") => result = Median

\* C7 as amended: for any inputs not both empty the call always returns a
\* number, never an error or None; that number is the median whenever both
\* inputs are ascending (for an unsorted input it can be another number).
C7_Amended ==
  (Returned /\ ~BothEmpty) =>
     /\ result.k = "num"
     /\ SortedInputs => result = Median

C7_Witness ==
  /\ Returned /\ ~BothEmpty
  /\ ~SortedInputs
  /\ result.k = "num" /\ result # Median

\* C8: in every iteration on any inputs, 0 <= partition1 <= m and
\* 0 <= partition2 <= n, and every element read is at an index inside its
\* list (nothing negative, nothing past the end).
C8_ReadsInBounds ==
  (pc \in {"test", "done"}) =>
     /\ m <= n
     /\ 0 <= partition1 /\ partition1 <= m
     /\ 0 <= partition2 /\ partition2 <= n
     /\ result.k # "IndexError"
     /\ \A r \in reads :
          /\ 0 <= r[2]
          /\ r[2] < (IF r[1] = 1 THEN m ELSE n)
          /\ r[1] = 1 => r[2] \in {partition1 - 1, partition1}
          /\ r[1] = 2 => r[2] \in {partition2 - 1, partition2}

C8_Witness ==
  /\ pc = "test" /\ ~SortedInputs
  /\ Len(orig[1]) > Len(orig[2])
  /\ partition1 > 0 /\ partition2 < n
  /\ Cardinality(reads) = 4

\* C9: for ascending inputs not both empty the search step never discards a
\* valid cut: after a failed test with max1 > min2 every valid partition1 is
\* smaller than the candidate, with max2 > min1 every valid partition1 is
\* larger, and at the head of every iteration a valid partition1 lies in
\* [left, right].
C9_KeepsValidCut ==
  (SortedInputs /\ ~BothEmpty) =>
     /\ (pc = "test" /\ ~CorrectPartition(max1, min1, max2, min2)) =>
          /\ Gt(max1, min2) => \A p \in 0..m : ValidCut(p) => p < partition1
          /\ Gt(max2, min1) => \A p \in 0..m : ValidCut(p) => p > partition1
          /\ Gt(max1, min2) \/ Gt(max2, min1)
     /\ pc = "loop" => \E p \in left..right : ValidCut(p)

C9_Witness ==
  /\ SortedInputs /\ pc = "loop"
  /\ iters >= 1 /\ left = partition1 + 1
  /\ left < right

\* C10: for any inputs the loop body runs at most
\* floor(log2(min(|A|,|B|) + 1)) + 1 times, every iteration that does not
\* return leaves at most half (rounded down) of the candidate cuts, and the
\* search range is that of the shorter list.
C10_Invariant ==
  /\ iters <= Log2Floor(Shorter + 1) + 1
  /\ (pc = "loop" /\ iters = 0) => (left = 0 /\ right = Shorter)

C10_Halving ==
  (pc = "test" /\ pc' # "test" /\ <<left, right>>' # <<left, right>>) =>
     (right' - left' + 1) <= (right - left + 1) \div 2

C10_LogBound == [](C10_Invariant) /\ [][C10_Halving]_vars

C10_Witness ==
  /\ pc = "test"
  /\ Shorter = MaxLen
  /\ iters = Log2Floor(Shorter + 1) + 1
  /\ left = right

====
